---------------------------- MODULE Spec2Model ----------------------------
(***************************************************************************)
(* A model of SI_app.py: the solar-cell tester's panel for the Keithley    *)
(* 2401 SourceMeter.  The state is the module's globals, the widgets the   *)
(* handlers touch, the position of the handler in progress, and what the   *)
(* instrument has been told.  Each handler is translated statement by      *)
(* statement; a handler that blocks on the instrument is split at the      *)
(* statements that talk to it.                                             *)
(*                                                                         *)
(* Numbers: every physical quantity (volts, amps, area, flux, the          *)
(* metrics) is an integer count of 10^-6 units, so 2.0 V is 2000000.       *)
(*                                                                         *)
(* Exceptions: an exception leaves the handler at the statement that       *)
(* raised it and returns to the Qt event loop; err names it.  The model    *)
(* follows the runs in which the event loop goes on dispatching events.    *)
(* pyvisa's write() is taken to deliver; open_resource() and query() may   *)
(* raise.                                                                  *)
(***************************************************************************)
EXTENDS Integers, Sequences, FiniteSets, TLC

\* Number of data points.  The source sets N = 100 (line 76); the model
\* checks the same code with a small N.
N == 2

\* 1.0 in the model's unit.
Scale == 10^6

\* The resource names rm.list_resources() returned.
devices == {"GPIB0::24::INSTR", "ASRL1::INSTR"}

\* The first item of selectMenu, which names no resource.
Placeholder == "Sourcemeter"

ports == {"Front", "Rear"}

Widgets == {"portMenu", "startButton", "stopButton", "saveButton",
            "startVentry", "stopVentry", "fluxEntry", "areaEntry"}

(***************************************************************************)
(* Text that float() is applied to: a decimal number, or text that is no   *)
(* number.                                                                 *)
(***************************************************************************)
Num(x) == [ok |-> TRUE, val |-> x]
NaN == [ok |-> FALSE, val |-> 0]

\* The readings the instrument reports in the runs explored: 7 uA is below
\* processData's zero threshold, 1.234567 has more digits than save prints.
Readings == {7, 1234567}

\* What the operator types into the voltage entries (the validator admits
\* only numbers in [-5, 5] with two decimals) and into area and flux (no
\* validator: any text).
VoltEntries == {1230000}
ParamEntries == {Num(1500000), NaN}

(***************************************************************************)
(* printf-style formatting.  The result is the printed decimal, as a count *)
(* of its last printed digit's unit.                                       *)
(***************************************************************************)
RoundDiv(x, q) ==
    IF x >= 0 THEN (x + q \div 2) \div q ELSE -((-x + q \div 2) \div q)

Fmt2f(x) == RoundDiv(x, 10^4)
Fmt3f(x) == RoundDiv(x, 10^3)
Fmt5f(x) == RoundDiv(x, 10)

RECURSIVE Digits(_)
Digits(x) == IF x < 10 THEN 1 ELSE 1 + Digits(x \div 10)

\* %0.5g keeps five significant digits; the result stays in 10^-6 units.
Fmt5g(x) ==
    LET a == IF x >= 0 THEN x ELSE -x
        q == IF Digits(a) > 5 THEN 10^(Digits(a) - 5) ELSE 1
    IN  RoundDiv(x, q) * q

VARIABLES
    selectMenu,  \* selectMenu.currentText()
    portMenu,    \* portMenu.currentText()
    enabled,     \* enabled[w]: widget w accepts input (not setDisabled)
    SM,          \* the resource the open session talks to, or "None"
    minV, maxV, area, flux,
    voltage, current,
    Imax, IVmax, Vmax, fillFactor, efficiency,
    scene,       \* what the canvas shows: the plotted x and y data
    datastring,  \* start_clicked's local: the fields of the response (<<>>
                 \* outside start_clicked)
    pc,          \* the statement the handler in progress is at, or "idle"
    err,         \* the exception that ended the last handler, or ""
    sent,        \* what the handler in progress (or the last one) wrote to
                 \* instruments, in order
    file,        \* the lines the last handler wrote to the data file
    output,      \* output[d]: instrument d's source output is on
    terminal     \* terminal[d]: the terminal instrument d was last told to use

gui == <<selectMenu, portMenu, enabled>>
params == <<minV, maxV, area, flux>>
arrays == <<voltage, current>>
metrics == <<Imax, IVmax, Vmax, fillFactor, efficiency>>
instr == <<output, terminal>>
vars == <<gui, SM, params, arrays, metrics, scene, datastring, pc, err, sent,
          file, instr>>

zeros == [j \in 1..N |-> 0]

Init ==
    /\ selectMenu = Placeholder
    /\ portMenu = "Front"
    /\ enabled = [w \in Widgets |-> FALSE]
    /\ SM = "None"
    /\ minV = 0
    /\ maxV = 2 * Scale
    /\ area = 2760000
    /\ flux = 100 * Scale
    /\ voltage = zeros
    /\ current = zeros
    /\ Imax = 0
    /\ IVmax = 0
    /\ Vmax = 0
    /\ fillFactor = 0
    /\ efficiency = 0
    /\ scene = [x |-> <<>>, y |-> <<>>]
    /\ datastring = <<>>
    /\ pc = "idle"
    /\ err = ""
    /\ sent = <<>>
    /\ file = <<>>
    /\ output = [d \in devices |-> FALSE]
    /\ terminal = [d \in devices |-> "unset"]

(***************************************************************************)
(* The instrument.  A command is the text written plus the number printed  *)
(* into it (0 when the text has no number).  SCPI ignores letter case.     *)
(***************************************************************************)
Cmd(d, text, n) == [dev |-> d, cmd |-> text, arg |-> n]

TerminalOf(text, old) ==
    CASE text \in {"route:term front", "route:term Front"} -> "front"
      [] text \in {"route:term rear", "route:term Rear"} -> "rear"
      [] OTHER -> old

OutputOf(text, old) ==
    CASE text = "output on" -> TRUE
      [] text = "output off" -> FALSE
      [] OTHER -> old

RECURSIVE Deliver(_, _, _)
Deliver(cmds, out, term) ==
    IF cmds = <<>> THEN [output |-> out, terminal |-> term]
    ELSE LET c == Head(cmds)
         IN  Deliver(Tail(cmds),
                     [out EXCEPT ![c.dev] = OutputOf(c.cmd, @)],
                     [term EXCEPT ![c.dev] = TerminalOf(c.cmd, @)])

\* SM.write(...) for each of cmds, in order, after the handler in progress
\* has already written prev.
Write(prev, cmds) ==
    /\ sent' = prev \o cmds
    /\ output' = Deliver(cmds, output, terminal).output
    /\ terminal' = Deliver(cmds, output, terminal).terminal

\* A handler starts only when the event loop is idle and its widget is
\* enabled.
Dispatch(w) == pc = "idle" /\ enabled[w]

Enable(ws) == [w \in Widgets |-> IF w \in ws THEN TRUE ELSE enabled[w]]
Disable(ws) == [w \in Widgets |-> IF w \in ws THEN FALSE ELSE enabled[w]]

(***************************************************************************)
(* selectionChange, lines 141-163.  currentIndexChanged fires when another *)
(* item is chosen.  open_resource raises for a name that is no resource.   *)
(***************************************************************************)
selectionChange(item) ==
    /\ pc = "idle"
    /\ item # selectMenu
    /\ selectMenu' = item
    /\ sent' = <<>>
    /\ file' = <<>>
    /\ IF item \in devices
       THEN /\ SM' = item
            /\ err' = ""
            /\ pc' = "configure"
       ELSE /\ err' = "VisaIOError"
            /\ UNCHANGED <<SM, pc>>
    /\ UNCHANGED <<portMenu, enabled, params, arrays, metrics, scene,
                   datastring, instr>>

\* ConfigCommands with the sweep's stop voltage written before its start
\* voltage.
ConfigCommands_StopBeforeStart ==
    << Cmd(SM, "syst:beep 440", 0),
       Cmd(SM, "route:term front", 0),
       Cmd(SM, "source:function:mode volt", 0),
       Cmd(SM, "source:volt:stop %0.2f", Fmt2f(maxV)),
       Cmd(SM, "source:volt:start %0.2f", Fmt2f(minV)),
       Cmd(SM, "source:volt:mode sweep", 0),
       Cmd(SM, "format:elements voltage, current", 0),
       Cmd(SM, "source:sweep:points %d", N),
       Cmd(SM, "trig:count %d", N) >>

\* Lines 146-155: the writes that configure the sweep.
ConfigCommands ==
    << Cmd(SM, "syst:beep 440", 0),
       Cmd(SM, "route:term front", 0),
       Cmd(SM, "source:function:mode volt", 0),
       Cmd(SM, "source:volt:start %0.2f", Fmt2f(minV)),
       Cmd(SM, "source:volt:stop %0.2f", Fmt2f(maxV)),
       Cmd(SM, "source:volt:mode sweep", 0),
       Cmd(SM, "format:elements voltage, current", 0),
       Cmd(SM, "source:sweep:points %d", N),
       Cmd(SM, "trig:count %d", N) >>

selectionConfigure ==
    /\ pc = "configure"
    /\ Write(sent, ConfigCommands)
    /\ pc' = "enable"
    /\ UNCHANGED <<gui, SM, params, arrays, metrics, scene, datastring, err,
                   file>>

\* Lines 156-163.
SelectionEnables ==
    {"portMenu", "startButton", "startVentry", "stopVentry", "fluxEntry",
     "areaEntry"}

selectionEnable ==
    /\ pc = "enable"
    /\ enabled' = Enable(SelectionEnables)
    /\ pc' = "idle"
    /\ UNCHANGED <<selectMenu, portMenu, SM, params, arrays, metrics, scene,
                   datastring, err, sent, file, instr>>

(***************************************************************************)
(* portSet, lines 175-178.                                                 *)
(***************************************************************************)
portSet(p) ==
    /\ Dispatch("portMenu")
    /\ p # portMenu
    /\ portMenu' = p
    /\ Write(<<>>, <<Cmd(SM, "route:term " \o p, 0)>>)
    /\ err' = ""
    /\ file' = <<>>
    /\ UNCHANGED <<selectMenu, enabled, SM, params, arrays, metrics, scene,
                   datastring, pc>>

(***************************************************************************)
(* minVset and maxVset, lines 226-234; areaSet and fluxSet, lines 165-173. *)
(***************************************************************************)
minVset(v) ==
    /\ Dispatch("startVentry")
    /\ minV' = v
    /\ Write(<<>>, <<Cmd(SM, "source:volt:start %0.2f", Fmt2f(v))>>)
    /\ err' = ""
    /\ file' = <<>>
    /\ UNCHANGED <<gui, SM, maxV, area, flux, arrays, metrics, scene,
                   datastring, pc>>

maxVset(v) ==
    /\ Dispatch("stopVentry")
    /\ maxV' = v
    /\ Write(<<>>, <<Cmd(SM, "source:volt:stop %0.2f", Fmt2f(v))>>)
    /\ err' = ""
    /\ file' = <<>>
    /\ UNCHANGED <<gui, SM, minV, area, flux, arrays, metrics, scene,
                   datastring, pc>>

areaSet(t) ==
    /\ Dispatch("areaEntry")
    /\ IF t.ok THEN area' = t.val /\ err' = ""
               ELSE area' = area /\ err' = "ValueError"
    /\ sent' = <<>>
    /\ file' = <<>>
    /\ UNCHANGED <<gui, SM, minV, maxV, flux, arrays, metrics, scene,
                   datastring, pc, instr>>

fluxSet(t) ==
    /\ Dispatch("fluxEntry")
    /\ IF t.ok THEN flux' = t.val /\ err' = ""
               ELSE flux' = flux /\ err' = "ValueError"
    /\ sent' = <<>>
    /\ file' = <<>>
    /\ UNCHANGED <<gui, SM, minV, maxV, area, arrays, metrics, scene,
                   datastring, pc, instr>>

(***************************************************************************)
(* The responses to "read?" explored.  datastring holds the response as    *)
(* its comma-separated fields, which is what split(',') returns (never no  *)
(* field at all).  A response is well formed (2N numbers), cut short, one  *)
(* field too long, or has a field that is no number.                       *)
(***************************************************************************)
WellFormed == [1..(2 * N) -> {Num(r) : r \in Readings}]

Sample == [k \in 1..(2 * N) |-> IF k % 2 = 1 THEN Num(1234567) ELSE Num(7)]

Responses ==
    WellFormed
    \cup {SubSeq(w, 1, k) : w \in WellFormed, k \in 1..(2 * N - 1)}
    \cup {Append(w, Num(7)) : w \in WellFormed}
    \cup {[Sample EXCEPT ![k] = NaN] : k \in 1..(2 * N)}

\* One response of each shape.
Shapes ==
    {Sample, SubSeq(Sample, 1, 2 * N - 1), SubSeq(Sample, 1, 1),
     Append(Sample, Num(7)), [Sample EXCEPT ![2 * N] = NaN]}

(***************************************************************************)
(* start_clicked, lines 96-108, split at the instrument calls.             *)
(***************************************************************************)
\* start_clicked without line 101: the start button is left enabled.
start_clicked_StartLeftEnabled ==
    /\ Dispatch("startButton")
    /\ enabled' = [enabled EXCEPT !["stopButton"] = TRUE]
    /\ pc' = "output on"
    /\ err' = ""
    /\ sent' = <<>>
    /\ file' = <<>>
    /\ UNCHANGED <<selectMenu, portMenu, SM, params, arrays, metrics, scene,
                   datastring, instr>>

start_clicked ==
    /\ Dispatch("startButton")
    /\ enabled' = [enabled EXCEPT !["startButton"] = FALSE,
                                  !["stopButton"] = TRUE]
    /\ pc' = "output on"
    /\ err' = ""
    /\ sent' = <<>>
    /\ file' = <<>>
    /\ UNCHANGED <<selectMenu, portMenu, SM, params, arrays, metrics, scene,
                   datastring, instr>>

\* Line 104.
startOutputOn ==
    /\ pc = "output on"
    /\ Write(sent, <<Cmd(SM, "output on", 0)>>)
    /\ pc' = "query"
    /\ UNCHANGED <<gui, SM, params, arrays, metrics, scene, datastring, err,
                   file>>

\* Line 105: query writes "read?" and blocks until the response arrives.
startQuery(data) ==
    /\ pc = "query"
    /\ Write(sent, <<Cmd(SM, "read?", 0)>>)
    /\ datastring' = data
    /\ pc' = "output off"
    /\ UNCHANGED <<gui, SM, params, arrays, metrics, scene, err, file>>

\* Line 105: no response within SM.timeout, or the session broke.
startQueryFails ==
    /\ pc = "query"
    /\ Write(sent, <<Cmd(SM, "read?", 0)>>)
    /\ err' = "VisaIOError"
    /\ pc' = "idle"
    /\ UNCHANGED <<gui, SM, params, arrays, metrics, scene, datastring, file>>

\* Line 106.
startOutputOff ==
    /\ pc = "output off"
    /\ Write(sent, <<Cmd(SM, "output off", 0)>>)
    /\ pc' = "processData"
    /\ UNCHANGED <<gui, SM, params, arrays, metrics, scene, datastring, err,
                   file>>

(***************************************************************************)
(* processData, lines 186-224.  The two comprehensions of lines 207-208    *)
(* read data[0], data[2], ... and data[1], data[3], ... (Python counts     *)
(* from 0, the model from 1) and raise at the first index that is past the *)
(* end (IndexError) or holds no number (ValueError).                       *)
(***************************************************************************)
Min(S) == CHOOSE x \in S : \A y \in S : x <= y

\* The exception [float(data[j]) for j in range(first, 2*N, 2)] raises, or "".
ComprehensionError(data, first) ==
    LET idx == {first + 2 * j : j \in 0..(N - 1)}
        bad == {k \in idx : k + 1 > Len(data) \/ ~data[k + 1].ok}
    IN  IF bad = {} THEN ""
        ELSE IF Min(bad) + 1 > Len(data) THEN "IndexError" ELSE "ValueError"

Comprehension(data, first) == [j \in 1..N |-> data[first + 2 * (j - 1) + 1].val]

\* scene.axes.plot(voltage, current*1000, 'r.'), lines 213-221.
Plot(v, i) == [x |-> v, y |-> [j \in 1..N |-> i[j] * 1000]]

\* The globals and widgets as processData leaves them, and the exception it
\* raised ("" when it returned).
processData(dataString) ==
    LET data == dataString
        verr == ComprehensionError(data, 0)
        cerr == ComprehensionError(data, 1)
        old == [voltage |-> voltage, current |-> current, scene |-> scene,
                enabled |-> enabled, err |-> ""]
    IN  IF verr # ""
        THEN [old EXCEPT !.err = verr]
        ELSE IF cerr # ""
        THEN [old EXCEPT !.voltage = Comprehension(data, 0), !.err = cerr]
        ELSE [voltage |-> Comprehension(data, 0),
              current |-> Comprehension(data, 1),
              scene |-> Plot(Comprehension(data, 0), Comprehension(data, 1)),
              enabled |-> Enable({"saveButton"}),
              err |-> ""]

\* Lines 107-108: processData(datastring), then, unless it raised, the start
\* button is enabled again.
startProcess ==
    /\ pc = "processData"
    /\ LET r == processData(datastring)
       IN  /\ voltage' = r.voltage
           /\ current' = r.current
           /\ scene' = r.scene
           /\ err' = r.err
           /\ enabled' = IF r.err = ""
                         THEN [r.enabled EXCEPT !["startButton"] = TRUE]
                         ELSE r.enabled
    /\ datastring' = <<>>
    /\ pc' = "idle"
    /\ UNCHANGED <<selectMenu, portMenu, SM, params, metrics, sent, file,
                   instr>>

(***************************************************************************)
(* stop_clicked, lines 110-117.                                            *)
(***************************************************************************)
stop_clicked ==
    /\ Dispatch("stopButton")
    /\ enabled' = [enabled EXCEPT !["stopButton"] = FALSE,
                                  !["startButton"] = TRUE]
    /\ Write(<<>>, <<Cmd(SM, "output off", 0)>>)
    /\ err' = ""
    /\ file' = <<>>
    /\ UNCHANGED <<selectMenu, portMenu, SM, params, arrays, metrics, scene,
                   datastring, pc>>

(***************************************************************************)
(* save_clicked, lines 119-139.  A line of the file is the format string   *)
(* written and the numbers printed into it.  The dialog returns a name the *)
(* file can be opened under, or (cancelled) the empty name, for which      *)
(* open raises.                                                            *)
(***************************************************************************)
Line(text, a, b) == [text |-> text, a |-> a, b |-> b]

\* Lines 125-131.
HeaderLines ==
    << Line("# Area = %0.5f (units?)\n", Fmt5f(area), 0),
       Line("# Flux = %0.5f (units?)\n", Fmt5f(flux), 0),
       Line("# Max Current = %0.5f mA\n", Fmt5f(Imax), 0),
       Line("# Max Voltage = %0.5f V\n", Fmt5f(Vmax), 0),
       Line("# Fill Factor = %0.3f \n", Fmt3f(fillFactor), 0),
       Line("# Efficiency = %0.3f\n", Fmt3f(efficiency), 0),
       Line("# Voltage\tCurrent\n", 0, 0) >>

\* DataLines with the loop one short: range(N - 1).
DataLines_OneShort ==
    [j \in 1..(N - 1) |->
        Line("%0.5f\t%0.5g\n", Fmt5f(voltage[j]), Fmt5g(current[j]))]

\* Lines 133-134.
DataLines ==
    [j \in 1..N |-> Line("%0.5f\t%0.5g\n", Fmt5f(voltage[j]), Fmt5g(current[j]))]

save_clicked(opened) ==
    /\ Dispatch("saveButton")
    /\ sent' = <<>>
    /\ IF opened
       THEN /\ file' = HeaderLines \o DataLines
            /\ enabled' = Disable({"saveButton"})
            /\ err' = ""
       ELSE /\ file' = <<>>
            /\ err' = "FileNotFoundError"
            /\ UNCHANGED enabled
    /\ UNCHANGED <<selectMenu, portMenu, SM, params, arrays, metrics, scene,
                   datastring, pc, instr>>

(***************************************************************************)
(* The panel: every handler, any instrument, with one response of each     *)
(* shape.                                                                  *)
(***************************************************************************)
Next ==
    \/ \E item \in devices \cup {Placeholder} : selectionChange(item)
    \/ selectionConfigure
    \/ selectionEnable
    \/ \E p \in ports : portSet(p)
    \/ \E v \in VoltEntries : minVset(v)
    \/ \E v \in VoltEntries : maxVset(v)
    \/ \E t \in ParamEntries : areaSet(t)
    \/ \E t \in ParamEntries : fluxSet(t)
    \/ start_clicked
    \/ startOutputOn
    \/ \E data \in Shapes : startQuery(data)
    \/ startQueryFails
    \/ startOutputOff
    \/ startProcess
    \/ stop_clicked
    \/ \E opened \in BOOLEAN : save_clicked(opened)

Spec == Init /\ [][Next]_vars

(***************************************************************************)
(* The data path: one instrument, selected once; sweeps over all the       *)
(* responses, stops, changes of area and flux, saves.                      *)
(***************************************************************************)
NextData ==
    \/ \E item \in {"GPIB0::24::INSTR"} : selectionChange(item)
    \/ selectionConfigure
    \/ selectionEnable
    \/ \E t \in ParamEntries : areaSet(t)
    \/ \E t \in ParamEntries : fluxSet(t)
    \/ start_clicked
    \/ startOutputOn
    \/ \E data \in Responses : startQuery(data)
    \/ startQueryFails
    \/ startOutputOff
    \/ startProcess
    \/ stop_clicked
    \/ \E opened \in BOOLEAN : save_clicked(opened)

SpecData == Init /\ [][NextData]_vars

(***************************************************************************)
(*                              The claims                                 *)
(***************************************************************************)
SweepPcs == {"output on", "query", "output off", "processData"}

Texts(cmds) == [k \in 1..Len(cmds) |-> cmds[k].cmd]

SweepTexts == <<"output on", "read?", "output off">>

\* The response has its 2N fields and they are numbers.
Parses(data) == Len(data) >= 2 * N /\ \A k \in 1..(2 * N) : data[k].ok

EvenFields(data) == [j \in 1..N |-> data[2 * j - 1].val]
OddFields(data) == [j \in 1..N |-> data[2 * j].val]

\* C1: voltage and current always have length N, and a call of processData
\* either leaves both as they were or replaces both from the one response
\* it was given.
C1_ArraysFromOneResponse ==
    [][ /\ Len(voltage') = N
        /\ Len(current') = N
        /\ pc = "processData" =>
              \/ UNCHANGED <<voltage, current>>
              \/ /\ Parses(datastring)
                 /\ voltage' = EvenFields(datastring)
                 /\ current' = OddFields(datastring) ]_vars

\* C2: a call of processData on a response whose number of fields is not 2N
\* raises, builds no array, does not redraw the plot and does not enable the
\* save button.
C2_MiscountedResponseRejected ==
    [][ (pc = "processData" /\ Len(datastring) # 2 * N) =>
            /\ err' # ""
            /\ UNCHANGED <<voltage, current, scene>>
            /\ enabled'["saveButton"] = enabled["saveButton"] ]_vars

MaxOf(S) == CHOOSE x \in S : \A y \in S : y <= x
Abs(x) == IF x >= 0 THEN x ELSE -x

\* Products of two quantities in 10^-6 units, in 10^-6 units, computed on the
\* thousandths so that they stay within 32-bit integers.
Times(a, b) == (a \div 1000) * (b \div 1000)

\* Line 203: zero = 0.00001.
zero == 10

C3_Imax == MaxOf({current[j] : j \in 1..N})
C3_IVmax == MaxOf({Times(voltage[j], current[j]) : j \in 1..N})
C3_ZeroAt == {j \in 1..N : Abs(current[j]) < zero}

\* C3: once a sweep has succeeded and while the arrays are those of the last
\* successful sweep, the metrics are the ones computed from the arrays.
C3_MetricsFollowArrays ==
    (scene.x # <<>> /\ scene = Plot(voltage, current)) =>
        /\ Imax = C3_Imax
        /\ IVmax = C3_IVmax
        /\ C3_ZeroAt # {} => Vmax = voltage[Min(C3_ZeroAt)]
        /\ Times(Imax, Vmax) # 0 =>
              fillFactor \div 1000 = (IVmax * 1000) \div Times(Imax, Vmax)
        /\ efficiency = (IVmax * (area \div 10^4)) \div (flux \div 10^4)

\* C4: a sweep writes "output on", "read?", "output off" and nothing else,
\* in this order, to the open session; all three are written before
\* processData is called, and a sweep that has ended has written all three.
C4_SweepCommands ==
    [][ /\ pc' = "processData" =>
              /\ Texts(sent') = SweepTexts
              /\ \A k \in 1..3 : sent'[k].dev = SM
        /\ (pc \in SweepPcs /\ pc' = "idle") =>
              /\ Texts(sent') = SweepTexts
              /\ \A k \in 1..3 : sent'[k].dev = SM ]_vars

\* C5: while a sweep is in progress the start button is disabled, it is
\* disabled before "output on" is written, no sweep begins while one is in
\* progress, and a sweep that ends without an exception leaves the start
\* button enabled.
C5_StartDisabledDuringSweep ==
    [][ /\ pc' \in SweepPcs => ~enabled'["startButton"]
        /\ pc' = "output on" => sent' = <<>>
        /\ (pc \in SweepPcs /\ pc # "output on") => pc' # "output on"
        /\ (pc = "processData" /\ pc' = "idle" /\ err' = "") =>
              enabled'["startButton"] ]_vars

\* A sweep has ended without an exception and the start button is enabled.
C5_Witness ==
    /\ pc = "idle"
    /\ err = ""
    /\ Texts(sent) = SweepTexts
    /\ scene.x # <<>>
    /\ enabled["startButton"]

\* C6: when the read of a sweep fails, the handler ends with the start
\* button enabled.
C6_StartEnabledAfterFailedRead ==
    [][ (pc = "query" /\ pc' = "idle") => enabled'["startButton"] ]_vars

\* The nine commands of a selection of instrument d, with the start and stop
\* voltages printed to two decimals.
C7_Commands(d, lo, hi) ==
    << [dev |-> d, cmd |-> "syst:beep 440", arg |-> 0],
       [dev |-> d, cmd |-> "route:term front", arg |-> 0],
       [dev |-> d, cmd |-> "source:function:mode volt", arg |-> 0],
       [dev |-> d, cmd |-> "source:volt:start %0.2f", arg |-> lo],
       [dev |-> d, cmd |-> "source:volt:stop %0.2f", arg |-> hi],
       [dev |-> d, cmd |-> "source:volt:mode sweep", arg |-> 0],
       [dev |-> d, cmd |-> "format:elements voltage, current", arg |-> 0],
       [dev |-> d, cmd |-> "source:sweep:points %d", arg |-> N],
       [dev |-> d, cmd |-> "trig:count %d", arg |-> N] >>

C7_Controls == {"startButton", "startVentry", "stopVentry", "fluxEntry",
                "areaEntry"}

\* C7: a selection that succeeds has written exactly the nine commands, in
\* order, to the instrument chosen, with the current minV and maxV; the
\* selection changes no control before the last of them is written, and
\* then enables the start button and the entries.
C7_SelectionCommands ==
    [][ /\ pc' = "configure" => (sent' = <<>> /\ UNCHANGED enabled)
        /\ pc = "configure" =>
              (pc' = "enable" /\ UNCHANGED enabled)
        /\ pc = "enable" =>
              /\ sent = C7_Commands(selectMenu, Fmt2f(minV), Fmt2f(maxV))
              /\ SM = selectMenu
              /\ sent' = sent
              /\ \A w \in C7_Controls : enabled'[w] ]_vars

\* A selection made after the start voltage was edited has completed.
C7_Witness ==
    /\ pc = "idle"
    /\ minV = 1230000
    /\ sent = C7_Commands(SM, 123, 200)
    /\ \A w \in C7_Controls : enabled[w]

\* The file of the claim as amended (hash = TRUE) and as stated (FALSE): six
\* header lines, the row naming the columns, N data lines.
C8_File(hash) ==
    << [text |-> "# Area = %0.5f (units?)\n", a |-> Fmt5f(area), b |-> 0],
       [text |-> "# Flux = %0.5f (units?)\n", a |-> Fmt5f(flux), b |-> 0],
       [text |-> "# Max Current = %0.5f mA\n", a |-> Fmt5f(Imax), b |-> 0],
       [text |-> "# Max Voltage = %0.5f V\n", a |-> Fmt5f(Vmax), b |-> 0],
       [text |-> "# Fill Factor = %0.3f \n", a |-> Fmt3f(fillFactor), b |-> 0],
       [text |-> "# Efficiency = %0.3f\n", a |-> Fmt3f(efficiency), b |-> 0],
       [text |-> IF hash THEN "# Voltage\tCurrent\n" ELSE "Voltage\tCurrent\n",
        a |-> 0, b |-> 0] >>
    \o [j \in 1..N |-> [text |-> "%0.5f\t%0.5g\n",
                        a |-> Fmt5f(voltage[j]), b |-> Fmt5g(current[j])]]

\* C8 as amended: a save that succeeds writes the six '#' header lines, the
\* row "# Voltage\tCurrent", which begins with '#' too, and N data lines,
\* line j with voltage[j] and current[j]; it changes no array, parameter or
\* metric.
C8_SaveWritesFile ==
    [][ file' # <<>> =>
            /\ file' = C8_File(TRUE)
            /\ UNCHANGED <<arrays, params, metrics>> ]_vars

\* C8 as stated: the row naming the columns is "Voltage\tCurrent".
C8_SaveWritesFile_AsStated ==
    [][ file' # <<>> =>
            /\ file' = C8_File(FALSE)
            /\ UNCHANGED <<arrays, params, metrics>> ]_vars

\* A file was written from arrays whose entries differ, after area changed.
C8_Witness ==
    /\ file # <<>>
    /\ voltage[1] # voltage[2]
    /\ current[1] # current[2]
    /\ area # 2760000

\* C9: with no handler in progress, an instrument whose output was turned
\* on and not off since is the one the stop button, which is enabled, writes
\* "output off" to; and a press of stop changes only the two buttons.
C9_StopReachesLiveInstrument ==
    [][ /\ \A d \in devices :
              (pc' = "idle" /\ output'[d]) =>
                  (enabled'["stopButton"] /\ SM' = d)
        /\ (pc = "idle" /\ pc' = "idle" /\ Texts(sent') = <<"output off">>) =>
              /\ enabled' = [enabled EXCEPT !["stopButton"] = FALSE,
                                            !["startButton"] = TRUE]
              /\ UNCHANGED <<selectMenu, portMenu, SM, params, arrays,
                             metrics, scene>> ]_vars

\* C10: with no handler in progress, the terminal the selected instrument
\* was last told to use is the one the port menu shows.
C10_TerminalMatchesMenu ==
    (pc = "idle" /\ SM # "None") =>
        terminal[SM] = (IF portMenu = "Front" THEN "front" ELSE "rear")

=============================================================================
